---- MODULE Spec2Model ----
(***************************************************************************)
(* Model of the two integration-test runners of the repository:            *)
(*   tests/integration/run_tests.py   (docker-compose up / probe /         *)
(*                                     compile / summary / logs / down)    *)
(*   tests/integration/test_runner.py (probe / compile / summary)          *)
(* The variable `variant` says which script is running.  Every external    *)
(* call (subprocess.run, requests.get, Path.glob) is a step whose reply is *)
(* drawn from a small set.  Time is counted in ticks of 1/TicksPerSec s.   *)
(***************************************************************************)
EXTENDS Integers, Sequences, FiniteSets, TLC

\* ---- bounds of the model ------------------------------------------------
MaxFiles == 3
TicksPerSec == 1

\* ---- program constants --------------------------------------------------
MAX_WAIT_TIME == 60
ProbeTimeout == 2
SleepTime == 2
CompileTimeoutRunTests == 300
CompileTimeoutTestRunner == 900

None == "None"

\* file names a test_configs directory may hold, in ascending name order
YamlNames == <<"a.yaml", "b.yaml", "c.yaml", "d.yaml", "e.yaml">>
Files == {YamlNames[i] : i \in 1..MaxFiles}
NameIndex(n) == CHOOSE i \in 1..Len(YamlNames) : YamlNames[i] = n
NameLess(a, b) == NameIndex(a) < NameIndex(b)

Variants == {"run_tests", "test_runner"}

VARIABLES
    variant,        \* which script runs
    KEEP_RUNNING,   \* run_tests.py module flag read from the environment
    pc,             \* position of main
    cmds,           \* subprocess.run command lines issued so far
    started,        \* start_containers() returned True
    elapsed,        \* time.time() - start_time inside wait_for_esphome
    attempts,       \* requests.get calls made by wait_for_esphome
    sleeps,         \* time.sleep(2) calls made by wait_for_esphome
    lastStatus,     \* what the latest requests.get gave
    ready,          \* wait_for_esphome() returned True
    test_configs,   \* list(test_configs_dir.glob("*.yaml"))
    idx,            \* position of the for loop over test_configs
    replies,        \* what each compile child process did, in call order
    compileElapsed, \* seconds the latest compile call blocked
    results,        \* the results list of run_compilation_tests
    procs,          \* configs whose compile child process is alive
    summary,        \* what print_summary computed
    retval,         \* value returned by main (-1: none yet)
    exc,            \* an exception is propagating out of main
    exitCode,       \* process exit status (-1: still running)
    logReply,       \* how the docker-compose logs call went
    stopReply       \* how the docker-compose down call went

vars == <<variant, KEEP_RUNNING, pc, cmds, started, elapsed, attempts, sleeps,
          lastStatus, ready, test_configs, idx, replies, compileElapsed,
          results, procs, summary, retval, exc, exitCode, logReply,
          stopReply>>

waitVars == <<elapsed, attempts, sleeps, lastStatus, ready>>
batchVars == <<test_configs, idx, replies, compileElapsed, results, procs>>
endVars == <<summary, retval, exc, exitCode, logReply, stopReply>>

\* ---- command lines ------------------------------------------------------
UpCmd == <<"docker-compose", "up">>
DownCmd == <<"docker-compose", "down">>
LogsCmd == <<"docker-compose", "logs">>
CompileCmd(name) == <<"compile", name>>

NoSummary == [total |-> 0, passed |-> 0, failed |-> 0, all_passed |-> FALSE]

Init ==
    /\ variant \in Variants
    /\ KEEP_RUNNING \in (IF variant = "run_tests" THEN BOOLEAN ELSE {FALSE})
    /\ pc = IF variant = "run_tests" THEN "start" ELSE "wait_test"
    /\ cmds = <<>>
    /\ started = FALSE
    /\ elapsed = 0
    /\ attempts = 0
    /\ sleeps = 0
    /\ lastStatus = None
    /\ ready = FALSE
    /\ test_configs = <<>>
    /\ idx = 0
    /\ replies = <<>>
    /\ compileElapsed = 0
    /\ results = <<>>
    /\ procs = {}
    /\ summary = NoSummary
    /\ retval = -1
    /\ exc = FALSE
    /\ exitCode = -1
    /\ logReply = None
    /\ stopReply = None

\* ---- leaving main -------------------------------------------------------
\* run_tests.main returns through its finally clause; test_runner.main
\* returns straight to sys.exit.
ReturnFrom(v, code) ==
    IF v = "run_tests"
    THEN /\ pc' = "finally"
         /\ retval' = code
         /\ exitCode' = exitCode
    ELSE /\ pc' = "done"
         /\ retval' = code
         /\ exitCode' = code

\* ---- start_containers ---------------------------------------------------
StartReplies == {"ok", "nonzero", "oserror"}

\* variant of AfterStart that goes on to the readiness wait whatever the reply
AfterStartIgnoringFailure(reply) == "wait_test"

AfterStart(reply) == IF reply = "ok" THEN "wait_test" ELSE "finally"

start_containers ==
    /\ pc = "start"
    /\ \E reply \in StartReplies :
        /\ cmds' = Append(cmds, UpCmd)
        /\ started' = (reply = "ok")
        /\ pc' = AfterStart(reply)
        /\ retval' = IF reply = "nonzero" THEN 1 ELSE retval
        /\ exc' = (reply = "oserror")
    /\ UNCHANGED <<variant, KEEP_RUNNING, waitVars, batchVars, summary,
                   exitCode, logReply, stopReply>>

\* ---- wait_for_esphome ---------------------------------------------------
Statuses == {"200", "503", "error"}
ProbeDurations == 0..(ProbeTimeout * TicksPerSec)

\* variant of LoopContinues with an inclusive comparison
LoopContinuesInclusive(e) == e <= MAX_WAIT_TIME * TicksPerSec

\* the while condition: time.time() - start_time < MAX_WAIT_TIME
LoopContinues(e) == e < MAX_WAIT_TIME * TicksPerSec

\* variant of AfterProbe in which a raising request ends the wait
AfterProbeErrorReturns(status) ==
    IF status \in {"200", "error"} THEN "wait_ret" ELSE "sleep"

\* variant of AfterProbe that sleeps after every attempt, ready or not
AfterProbeAlwaysSleep(status) == "sleep"

\* where control goes after requests.get gave `status` (or raised)
AfterProbe(status) == IF status = "200" THEN "wait_ret" ELSE "sleep"

wait_for_esphome_test ==
    /\ pc = "wait_test"
    /\ IF LoopContinues(elapsed)
       THEN /\ pc' = "probe"
            /\ UNCHANGED ready
       ELSE /\ pc' = "wait_ret"
            /\ ready' = FALSE
    /\ UNCHANGED <<variant, KEEP_RUNNING, cmds, started, elapsed, attempts,
                   sleeps, lastStatus, batchVars, endVars>>

wait_for_esphome_probe ==
    /\ pc = "probe"
    /\ \E d \in ProbeDurations, status \in Statuses :
        /\ elapsed' = elapsed + d
        /\ attempts' = attempts + 1
        /\ lastStatus' = status
        /\ pc' = AfterProbe(status)
        /\ ready' = (AfterProbe(status) = "wait_ret")
    /\ UNCHANGED <<variant, KEEP_RUNNING, cmds, started, sleeps, batchVars,
                   endVars>>

wait_for_esphome_sleep ==
    /\ pc = "sleep"
    /\ elapsed' = elapsed + SleepTime * TicksPerSec
    /\ sleeps' = sleeps + 1
    /\ pc' = "wait_test"
    /\ UNCHANGED <<variant, KEEP_RUNNING, cmds, started, attempts, lastStatus,
                   ready, batchVars, endVars>>

\* main, after wait_for_esphome returned; the callee's locals are gone
AfterWait(v, isReady) ==
    IF isReady THEN "glob"
    ELSE IF v = "run_tests" THEN "logs" ELSE "return1"

main_after_wait ==
    /\ pc = "wait_ret"
    /\ LET to == AfterWait(variant, ready) IN
        IF to = "return1"
        THEN ReturnFrom(variant, 1)
        ELSE /\ pc' = to
             /\ UNCHANGED <<retval, exitCode>>
    /\ elapsed' = 0
    /\ attempts' = 0
    /\ sleeps' = 0
    /\ lastStatus' = None
    /\ UNCHANGED <<variant, KEEP_RUNNING, cmds, started, ready, batchVars,
                   summary, exc, logReply, stopReply>>

\* ---- run_compilation_tests ----------------------------------------------
\* Path.glob yields the matching directory entries in directory order,
\* which is any order; list() keeps that order.
glob(S) ==
    {f \in [1..Cardinality(S) -> S] :
        \A i, j \in 1..Cardinality(S) : i # j => f[i] # f[j]}

run_compilation_tests_glob ==
    /\ pc = "glob"
    /\ \E S \in SUBSET Files : \E order \in glob(S) :
        /\ test_configs' = order
        /\ IF order = <<>>
           THEN /\ pc' = "after_tests"
                /\ idx' = 0
           ELSE /\ pc' = "compile"
                /\ idx' = 1
    /\ UNCHANGED <<variant, KEEP_RUNNING, cmds, started, waitVars, replies,
                   compileElapsed, results, procs, endVars>>

\* what the child process of one compile command does
Durations == {1, 301, 901}
\* a command that cannot be launched, quick children with each exit status
\* and stderr, and slow children (one kind is enough: a runner whose timeout
\* they outlive never sees their exit status or stderr)
Children ==
    {[err |-> "docker: not found", dur |-> 0, returncode |-> 0, stderr |-> ""]}
    \cup
    {c \in {[err |-> "", dur |-> d, returncode |-> o[1], stderr |-> o[2]] :
                d \in Durations,
                o \in {<<0, "">>, <<0, "warning">>, <<1, "syntax error">>}} :
        c.dur = 1 \/ (c.returncode = 0 /\ c.stderr = "")}

CompileTimeout(v) ==
    IF v = "run_tests" THEN CompileTimeoutRunTests ELSE CompileTimeoutTestRunner

\* subprocess.run(cmd, timeout=t): raises when the command cannot be
\* launched, raises TimeoutExpired when the child outlives t, else returns
\* the completed process
subprocess_run(t, child) ==
    IF child.err # ""
    THEN [kind |-> "Exception", msg |-> child.err, returncode |-> 0,
          stderr |-> "", took |-> 0]
    ELSE IF child.dur > t
    THEN [kind |-> "TimeoutExpired", msg |-> "", returncode |-> 0,
          stderr |-> "", took |-> t]
    ELSE [kind |-> "Completed", msg |-> "", returncode |-> child.returncode,
          stderr |-> child.stderr, took |-> child.dur]

\* variant of Outcome whose generic except clause also takes TimeoutExpired
OutcomeGenericExcept(v, name, r) ==
    IF r.kind = "Completed"
    THEN IF r.returncode = 0
         THEN <<name, TRUE, None>>
         ELSE <<name, FALSE,
                IF v = "run_tests" THEN r.stderr ELSE "See output above">>
    ELSE <<name, FALSE, r.msg>>

\* variant of Outcome in which the streaming runner never looks at the
\* exit status of a completed compile
OutcomeStreamedIgnoresExit(v, name, r) ==
    IF r.kind = "Completed"
    THEN IF r.returncode = 0 \/ v = "test_runner"
         THEN <<name, TRUE, None>>
         ELSE <<name, FALSE, r.stderr>>
    ELSE IF r.kind = "TimeoutExpired"
    THEN <<name, FALSE, "Timeout">>
    ELSE <<name, FALSE, r.msg>>

\* the tuple appended for one config: the if/else and the except clauses
Outcome(v, name, r) ==
    IF r.kind = "Completed"
    THEN IF r.returncode = 0
         THEN <<name, TRUE, None>>
         ELSE <<name, FALSE,
                IF v = "run_tests" THEN r.stderr ELSE "See output above">>
    ELSE IF r.kind = "TimeoutExpired"
    THEN <<name, FALSE, "Timeout">>
    ELSE <<name, FALSE, r.msg>>

\* variant of RecordOutcome that records nothing for a timed-out compile
RecordOutcomeDropTimeout(res, o) ==
    IF o[3] = "Timeout" THEN res ELSE Append(res, o)

\* results.append(...)
RecordOutcome(res, o) == Append(res, o)

\* variant of AfterCompile that leaves the loop at the first failure
AfterCompileAbortOnFailure(i, n, o) ==
    IF i < n /\ o[2] THEN "compile" ELSE "after_tests"

\* the for loop: next config, or fall out to `return results`
AfterCompile(i, n, o) == IF i < n THEN "compile" ELSE "after_tests"

\* the children whose command line could be launched, and the others
Launched == {c \in Children : c.err = ""}
NotLaunched == Children \ Launched

\* variant of ChildReaped for a call that starts the child and does not
\* wait for it (subprocess.Popen in place of subprocess.run)
ChildNeverReaped(kind) == FALSE

\* variant of ChildReaped for a wait that gives up at the timeout and
\* leaves the child running (Popen.wait(timeout) in place of subprocess.run)
ChildReapedUnlessTimeout(kind) == kind # "TimeoutExpired"

\* whether the child is gone when subprocess.run hands control back: it
\* waits for the child to exit, and at the timeout kills it and waits
ChildReaped(kind) == TRUE

\* the rest of the loop body once subprocess.run has returned or raised
RecordCompile(name, child) ==
    LET r == subprocess_run(CompileTimeout(variant), child)
        o == Outcome(variant, name, r)
    IN  /\ replies' = Append(replies, <<name, child>>)
        /\ compileElapsed' = r.took
        /\ results' = RecordOutcome(results, o)
        /\ pc' = AfterCompile(idx, Len(test_configs), o)
        /\ idx' = idx + 1

\* subprocess.run is entered for the current config: the command either
\* cannot be launched (the call raises at once) or its child now runs
run_compilation_tests_spawn ==
    /\ pc = "compile"
    /\ LET name == test_configs[idx] IN
        /\ cmds' = Append(cmds, CompileCmd(name))
        /\ \/ /\ \E child \in NotLaunched : RecordCompile(name, child)
              /\ UNCHANGED procs
           \/ /\ pc' = "running"
              /\ procs' = procs \cup {name}
              /\ UNCHANGED <<idx, replies, compileElapsed, results>>
    /\ UNCHANGED <<variant, KEEP_RUNNING, started, waitVars, test_configs,
                   endVars>>

\* subprocess.run hands control back and the outcome is appended
run_compilation_tests_compile ==
    /\ pc = "running"
    /\ \E child \in Launched :
        LET name == test_configs[idx]
            r == subprocess_run(CompileTimeout(variant), child)
        IN  /\ RecordCompile(name, child)
            /\ procs' = IF ChildReaped(r.kind) THEN procs \ {name} ELSE procs
    /\ UNCHANGED <<variant, KEEP_RUNNING, cmds, started, waitVars,
                   test_configs, endVars>>

\* ---- print_summary ------------------------------------------------------
Passed(res) == Cardinality({i \in 1..Len(res) : res[i][2]})

print_summary(res) ==
    LET passed == Passed(res)
        failed == Len(res) - passed
    IN  [total |-> Len(res), passed |-> passed, failed |-> failed,
         all_passed |-> (failed = 0)]

\* variant of MainResult that reports success whatever the summary
MainResultAlwaysZero(all_passed) == 0

\* main's return value once the summary is known
MainResult(all_passed) == IF all_passed THEN 0 ELSE 1

\* variant of AfterSummary that never asks for the logs
AfterSummaryNoLogs(v, all_passed) == "return"

\* run_tests.main shows the logs when the summary reports a failure
AfterSummary(v, all_passed) ==
    IF v = "run_tests" /\ ~all_passed THEN "logs" ELSE "return"

\* main, after run_compilation_tests returned
main_after_tests ==
    /\ pc = "after_tests"
    /\ IF Len(results) = 0
       THEN /\ ReturnFrom(variant, 1)
            /\ UNCHANGED summary
       ELSE LET s == print_summary(results) IN
            /\ summary' = s
            /\ IF AfterSummary(variant, s.all_passed) = "logs"
               THEN /\ pc' = "logs"
                    /\ UNCHANGED <<retval, exitCode>>
               ELSE ReturnFrom(variant, MainResult(s.all_passed))
    /\ UNCHANGED <<variant, KEEP_RUNNING, cmds, started, waitVars, batchVars,
                   exc, logReply, stopReply>>

\* ---- show_logs_on_failure, then `return 1` --------------------------------
LogReplies == {"ok", "raise"}

show_logs_on_failure ==
    /\ pc = "logs"
    /\ \E reply \in LogReplies :
        /\ cmds' = Append(cmds, LogsCmd)
        /\ logReply' = reply
        /\ ReturnFrom(variant, 1)
    /\ UNCHANGED <<variant, KEEP_RUNNING, started, waitVars, batchVars,
                   summary, exc, stopReply>>

\* ---- stop_containers (the finally clause), then sys.exit -----------------
StopReplies == {"ok", "nonzero", "raise"}

\* variant of StopCmds that ignores KEEP_RUNNING
StopCmdsIgnoringFlag(keep) == <<DownCmd>>

StopCmds(keep) == IF ~keep THEN <<DownCmd>> ELSE <<>>

\* variant of StopPropagates without the except clause
StopPropagatesOnRaise(reply) == reply = "raise"

\* whether a failing docker-compose down leaves stop_containers as an
\* exception: check=False ignores the exit status, except Exception the rest
StopPropagates(reply) == FALSE

stop_containers ==
    /\ pc = "finally"
    /\ \E reply \in (IF KEEP_RUNNING THEN {None} ELSE StopReplies) :
        /\ cmds' = cmds \o StopCmds(KEEP_RUNNING)
        /\ stopReply' = reply
        /\ exc' = (exc \/ StopPropagates(reply))
        /\ exitCode' = IF exc' THEN 1 ELSE retval
        /\ pc' = "done"
    /\ UNCHANGED <<variant, KEEP_RUNNING, started, waitVars, batchVars,
                   summary, retval, logReply>>

Next ==
    \/ start_containers
    \/ wait_for_esphome_test
    \/ wait_for_esphome_probe
    \/ wait_for_esphome_sleep
    \/ main_after_wait
    \/ run_compilation_tests_glob
    \/ run_compilation_tests_spawn
    \/ run_compilation_tests_compile
    \/ main_after_tests
    \/ show_logs_on_failure
    \/ stop_containers

\* the interpreter keeps executing: every call returns, raises or times out
FairSpec == Init /\ [][Next]_vars /\ WF_vars(Next)

Spec == Init /\ [][Next]_vars
\* ---- derived views of the state -----------------------------------------
DownCount == Cardinality({k \in 1..Len(cmds) : cmds[k] = DownCmd})
CompiledNames ==
    {cmds[k][2] : k \in {m \in 1..Len(cmds) : cmds[m][1] = "compile"}}
CompileSeq == SelectSeq(cmds, LAMBDA c : c[1] = "compile")
AllSucceeded == \A i \in 1..Len(results) : results[i][2]
AfterBatch == pc \in {"after_tests", "logs", "finally", "done"}
WaitReturnedFalse == pc = "wait_ret" /\ ~ready

\* ---- C1 -----------------------------------------------------------------
\* C1: in run_tests.main the command `docker-compose down -v` is issued
\* exactly once on every finished run when KEEP_RUNNING is false and never
\* when it is true, and wherever it has been issued it is the last command
\* and the run is over.
C1_TeardownOnceAndLast ==
    variant = "run_tests" =>
        /\ DownCount <= 1
        /\ DownCount = 1 => (cmds[Len(cmds)] = DownCmd /\ pc = "done")
        /\ pc = "done" => DownCount = (IF KEEP_RUNNING THEN 0 ELSE 1)

C1_Witness ==
    /\ variant = "run_tests" /\ pc = "done" /\ ~KEEP_RUNNING
    /\ Len(results) = 2 /\ ~AllSucceeded
    /\ cmds[Len(cmds)] = DownCmd /\ DownCount = 1

\* ---- C2 -----------------------------------------------------------------
\* C2: the exit code is 0 exactly when bootstrap succeeded (run_tests),
\* readiness returned true, at least one input was discovered and every
\* recorded outcome succeeded; otherwise it is 1.
C2_ExitCode ==
    pc = "done" =>
        /\ exitCode \in {0, 1}
        /\ exitCode = 0 <=>
            /\ variant = "run_tests" => started
            /\ ready
            /\ Len(test_configs) >= 1
            /\ AllSucceeded

C2_Witness ==
    /\ pc = "done" /\ variant = "run_tests" /\ exitCode = 0
    /\ Len(test_configs) = 2

\* ---- C3 -----------------------------------------------------------------
\* C3: once the batch is over there is exactly one outcome per discovered
\* input, in the order of the inputs, each name once; print_summary's
\* passed + failed is the number of inputs; and a step never changes or
\* removes an outcome already in the list.
C3_OnePerInput ==
    AfterBatch =>
        /\ Len(results) = Len(test_configs)
        /\ \A i \in 1..Len(results) : results[i][1] = test_configs[i]
        /\ \A i, j \in 1..Len(results) :
            i # j => results[i][1] # results[j][1]
        /\ summary # NoSummary =>
            /\ summary.total = Len(test_configs)
            /\ summary.passed + summary.failed = Len(test_configs)

C3_OutcomesKept ==
    \A i \in 1..Len(results) :
        Len(results') >= i /\ results'[i] = results[i]

C3_NoOutcomeDropped == [](C3_OnePerInput) /\ [][C3_OutcomesKept]_vars

C3_Witness ==
    /\ pc = "done" /\ Len(test_configs) = 3
    /\ summary.passed = 1 /\ summary.failed = 2
    /\ \E i \in 1..3 : results[i][3] = "Timeout"
    /\ \E i \in 1..3 : results[i][3] = "docker: not found"

\* ---- C4 -----------------------------------------------------------------
\* C4: whatever made the outcome of input i a failure, every later input of
\* the discovered list has had its compile command invoked, or the loop is
\* still on its way to it.
C4_BatchNotAborted ==
    \A i \in 1..Len(results) :
        ~results[i][2] =>
            \A j \in (i + 1)..Len(test_configs) :
                \/ test_configs[j] \in CompiledNames
                \/ pc \in {"compile", "running"} /\ idx <= j

C4_Witness ==
    /\ AfterBatch /\ Len(test_configs) = 3
    /\ ~results[1][2] /\ results[1][3] = "Timeout"
    /\ ~results[2][2]
    /\ test_configs[3] \in CompiledNames

\* ---- C5 -----------------------------------------------------------------
\* C5: in run_tests.main a compile command is only ever invoked (or about to
\* be) after start_containers and then wait_for_esphome returned true; after
\* a failed bootstrap the run goes straight to its end with no probe and no
\* command other than the teardown.
C5_RunLevelFailureSkipsBatch ==
    variant = "run_tests" =>
        /\ (CompiledNames # {} \/ pc \in {"glob", "compile", "running"}) =>
            (started /\ ready)
        /\ (pc # "start" /\ ~started) =>
            /\ pc \in {"finally", "done"}
            /\ attempts = 0
            /\ ~ready
            /\ \A k \in 1..Len(cmds) : cmds[k] \in {UpCmd, DownCmd}
        /\ (started /\ ~ready) =>
            pc \notin {"glob", "compile", "running", "after_tests"}

C5_Witness ==
    /\ variant = "run_tests" /\ pc = "done" /\ ~started /\ ~exc
    /\ cmds = <<UpCmd, DownCmd>> /\ exitCode = 1

\* ---- C6 -----------------------------------------------------------------
\* C6 as stated: when the prober never gives 200, wait_for_esphome returns
\* false between 60 and 62 seconds after it started.
C6_Original ==
    WaitReturnedFalse =>
        /\ elapsed >= MAX_WAIT_TIME * TicksPerSec
        /\ elapsed <= (MAX_WAIT_TIME + SleepTime) * TicksPerSec

\* C6 amended: when the prober never gives 200, wait_for_esphome returns
\* false no earlier than 60 seconds and earlier than 64 seconds (deadline
\* plus one probe timeout plus one sleep) after it started.
C6_ReturnsFalseWithinWindow ==
    WaitReturnedFalse =>
        /\ elapsed >= MAX_WAIT_TIME * TicksPerSec
        /\ elapsed < (MAX_WAIT_TIME + ProbeTimeout + SleepTime) * TicksPerSec

C6_Witness ==
    /\ WaitReturnedFalse
    /\ elapsed > (MAX_WAIT_TIME + SleepTime) * TicksPerSec
    /\ lastStatus = "503"

\* ---- C7 -----------------------------------------------------------------
\* C7: the attempt that receives status 200 is the last thing
\* wait_for_esphome does: it returns true at once, having slept only between
\* the earlier attempts, and it returns true for no other reason.
C7_ReturnsTrueAtOnce ==
    /\ lastStatus = "200" =>
        /\ pc = "wait_ret" /\ ready
        /\ sleeps = attempts - 1
        /\ elapsed <= (sleeps * SleepTime + attempts * ProbeTimeout) * TicksPerSec
        /\ elapsed < (MAX_WAIT_TIME + ProbeTimeout) * TicksPerSec
    /\ (pc = "wait_ret" /\ ready) => lastStatus = "200"

C7_Witness ==
    /\ pc = "wait_ret" /\ ready /\ lastStatus = "200"
    /\ attempts = 3 /\ sleeps = 2 /\ elapsed = 4 * TicksPerSec

\* ---- C8 -----------------------------------------------------------------
\* C8: a compile whose child outlives the configured timeout gives exactly
\* the outcome (name, False, "Timeout") for that input, the call blocks no
\* longer than the timeout, and the next input is compiled afterwards.
TimedOut(i) ==
    /\ replies[i][2].err = ""
    /\ replies[i][2].dur > CompileTimeout(variant)

C8_TimeoutOutcome ==
    /\ compileElapsed <= CompileTimeout(variant)
    /\ \A i \in 1..Len(replies) :
        TimedOut(i) =>
            /\ Len(results) >= i
            /\ results[i] = <<replies[i][1], FALSE, "Timeout">>
            /\ Cardinality({k \in 1..Len(results) :
                                results[k][1] = replies[i][1]}) = 1
            /\ i < Len(test_configs) =>
                \/ test_configs[i + 1] \in CompiledNames
                \/ pc = "compile" /\ idx = i + 1

C8_Witness ==
    /\ Len(replies) >= 2 /\ TimedOut(1)
    /\ compileElapsed < CompileTimeout(variant)
    /\ results[1][3] = "Timeout" /\ results[2][2]

\* ---- C9 -----------------------------------------------------------------
\* C9 as stated: in run_tests each outcome is determined by the compile
\* result of its own input (exit 0 gives (name, True, None), another exit
\* code gives (name, False, stderr)), and the run over {a.yaml exit 0,
\* b.yaml exit 1 with stderr "syntax error"} ends with outcomes
\* [(a, True, None), (b, False, "syntax error")], summary 2/1/1, exit code 1.
Completed(i) ==
    /\ replies[i][2].err = ""
    /\ replies[i][2].dur <= CompileTimeout(variant)

ScenarioAB ==
    /\ variant = "run_tests" /\ pc = "done"
    /\ Len(replies) = 2
    /\ \A i \in 1..2 : Completed(i)
    /\ \E i \in 1..2 :
        replies[i][1] = "a.yaml" /\ replies[i][2].returncode = 0
    /\ \E i \in 1..2 :
        /\ replies[i][1] = "b.yaml" /\ replies[i][2].returncode = 1
        /\ replies[i][2].stderr = "syntax error"

C9_Original ==
    /\ variant = "run_tests" =>
        \A i \in 1..Len(results) :
            Completed(i) =>
                results[i] =
                    IF replies[i][2].returncode = 0
                    THEN <<replies[i][1], TRUE, None>>
                    ELSE <<replies[i][1], FALSE, replies[i][2].stderr>>
    /\ ScenarioAB =>
        /\ results = << <<"a.yaml", TRUE, None>>,
                        <<"b.yaml", FALSE, "syntax error">> >>
        /\ summary = [total |-> 2, passed |-> 1, failed |-> 1,
                      all_passed |-> FALSE]
        /\ exitCode = 1

\* ---- C10 ----------------------------------------------------------------
\* C10 as stated: the compile invocations and the outcome list are in
\* ascending name order, whatever order the directory scan gave.
C10_Original ==
    /\ \A i, j \in 1..Len(CompileSeq) :
        i < j => NameLess(CompileSeq[i][2], CompileSeq[j][2])
    /\ \A i, j \in 1..Len(results) :
        i < j => NameLess(results[i][1], results[j][1])

\* ---- C11 ----------------------------------------------------------------
LogsCount == Cardinality({k \in 1..Len(cmds) : cmds[k] = LogsCmd})
FailedRunPastBootstrap ==
    variant = "run_tests" /\ pc = "done" /\ started /\ exitCode = 1

\* C11 as stated: every run of run_tests.main that got past bootstrap and
\* ended in failure (readiness timeout, no inputs, or a failed outcome) has
\* requested the log tail exactly once, whatever became of that request.
C11_Original ==
    FailedRunPastBootstrap => LogsCount = 1

\* C11 amended: a run of run_tests.main that got past bootstrap has
\* requested the log tail exactly once if it ended by a readiness timeout or
\* with at least one failed outcome, and not at all otherwise (in particular
\* not when no inputs were found); a run that requested the logs exits
\* with 1 whether the request worked or raised.
C11_LogsOnTimeoutOrFailedOutcome ==
    (variant = "run_tests" /\ pc = "done" /\ started) =>
        /\ LogsCount = IF ~ready \/ ~AllSucceeded THEN 1 ELSE 0
        /\ (ready /\ Len(test_configs) = 0) => (LogsCount = 0 /\ exitCode = 1)
        /\ (logReply = None) <=> (LogsCount = 0)
        /\ logReply # None => (exitCode = 1 /\ ~exc)

C11_Witness ==
    /\ FailedRunPastBootstrap /\ ready /\ ~AllSucceeded
    /\ LogsCount = 1 /\ logReply = "raise"

\* ---- C12 ----------------------------------------------------------------
\* C12: when the docker-compose down call fails (non-zero exit or an
\* exception on launch), no exception leaves stop_containers and the process
\* exits with the value main was returning (or with the status of the
\* exception that was already on its way out of main).
C12_TeardownBestEffort ==
    (pc = "done" /\ stopReply \in {"nonzero", "raise"}) =>
        /\ exc <=> (retval = -1)
        /\ exc => (~started /\ cmds = <<UpCmd, DownCmd>>)
        /\ exitCode = IF retval = -1 THEN 1 ELSE retval
        /\ exitCode = 0 <=>
            (started /\ ready /\ Len(results) >= 1 /\ AllSucceeded)

C12_Witness ==
    /\ pc = "done" /\ stopReply = "raise" /\ ~exc
    /\ retval = 0 /\ exitCode = 0 /\ Len(results) = 2

\* ---- C13 ----------------------------------------------------------------
\* C13: after an attempt that raised or gave a status other than 200,
\* wait_for_esphome goes to its 2-second sleep and back to the loop test; it
\* raises nothing, and it only returns (false) once the elapsed time has
\* reached the deadline; below the deadline the loop test leads to a probe.
C13_AfterFailedAttempt ==
    lastStatus \in {"503", "error"} =>
        /\ pc \in {"sleep", "wait_test", "probe", "wait_ret"}
        /\ ~exc /\ exitCode = -1
        /\ pc = "sleep" => sleeps = attempts - 1
        /\ pc \in {"wait_test", "probe"} => sleeps = attempts
        /\ pc = "probe" => elapsed < MAX_WAIT_TIME * TicksPerSec
        /\ pc = "wait_ret" =>
            /\ ~ready
            /\ sleeps = attempts
            /\ elapsed >= MAX_WAIT_TIME * TicksPerSec

C13_ProbesAgain ==
    (/\ pc = "wait_test"
     /\ lastStatus \in {"503", "error"}
     /\ elapsed < MAX_WAIT_TIME * TicksPerSec) => pc' = "probe"

C13_ProbeErrorsSwallowed ==
    [](C13_AfterFailedAttempt) /\ [][C13_ProbesAgain]_vars

C13_Witness ==
    /\ pc = "probe" /\ lastStatus = "error"
    /\ attempts = 2 /\ sleeps = 2

\* ---- C14 ----------------------------------------------------------------
\* C14: at most one compile child is alive at any time, it belongs to the
\* config the loop is at, and the compile command of the next config is
\* only issued once the outcome of the current one is in the list.
C14_CompilesSerial ==
    /\ Cardinality(procs) <= 1
    /\ pc = "running" =>
        (procs = {test_configs[idx]} /\ Len(CompileSeq) = Len(results) + 1)
    /\ pc # "running" =>
        (procs = {} /\ Len(CompileSeq) = Len(results))
    /\ \A k \in 1..Len(CompileSeq) : CompileSeq[k][2] = test_configs[k]

C14_Witness ==
    /\ pc = "running" /\ idx = 3 /\ Len(results) = 2
    /\ procs = {test_configs[3]}

Succeeded(i) == Completed(i) /\ replies[i][2].returncode = 0

ExpectedDetail(i) ==
    IF Succeeded(i) THEN None
    ELSE IF replies[i][2].err # "" THEN replies[i][2].err
    ELSE IF TimedOut(i) THEN "Timeout"
    ELSE IF variant = "run_tests" THEN replies[i][2].stderr
    ELSE "See output above"

\* C16: in both runners the readiness result, the recorded (name, success)
\* pairs and the exit code are one and the same function of the probe
\* responses, the scan order and the per-input compile results, in which the
\* runner does not occur (bootstrap having succeeded in run_tests); only the
\* detail of a non-zero exit depends on the runner.
C16_VariantsAgree ==
    /\ pc = "wait_ret" => (ready <=> lastStatus = "200")
    /\ Len(replies) = Len(results)
    /\ \A i \in 1..Len(results) :
        /\ results[i][1] = test_configs[i]
        /\ results[i][2] = Succeeded(i)
        /\ results[i][3] = ExpectedDetail(i)
    /\ (pc = "done" /\ (variant = "run_tests" => started)) =>
        exitCode =
            IF /\ ready
               /\ Len(test_configs) >= 1
               /\ \A i \in 1..Len(results) : Succeeded(i)
            THEN 0 ELSE 1

C16_Witness ==
    /\ variant = "test_runner" /\ pc = "done" /\ exitCode = 1
    /\ Len(results) = 2
    /\ results[1] = <<test_configs[1], TRUE, None>>
    /\ results[2] = <<test_configs[2], FALSE, "See output above">>

\* ---- C17 ----------------------------------------------------------------
\* C17: wherever docker-compose logs stands in the command list of
\* run_tests.main, start_containers had returned true, docker-compose up
\* stands before it and docker-compose down, if issued, after it.
C17_LogsBetweenUpAndDown ==
    \A k \in 1..Len(cmds) :
        cmds[k] = LogsCmd =>
            /\ variant = "run_tests" /\ started
            /\ \E u \in 1..(k - 1) : cmds[u] = UpCmd
            /\ \A d \in 1..Len(cmds) : cmds[d] = DownCmd => k < d

C17_Witness ==
    /\ pc = "done" /\ ~ready /\ started
    /\ cmds = <<UpCmd, LogsCmd, DownCmd>>

\* ---- C18 ----------------------------------------------------------------
MaxProbeAttempts == MAX_WAIT_TIME \div SleepTime

\* C18: a call of wait_for_esphome makes at least one and at most 30 probe
\* attempts and returns; and when every step of the run returns, raises or
\* times out, the run ends with an exit code of 0 or 1, run_tests.main
\* having gone through its teardown step.
C18_WaitAttemptsBounded ==
    /\ attempts <= MaxProbeAttempts
    /\ pc = "wait_ret" => attempts >= 1

C18_RunEnded ==
    /\ pc = "done" /\ exitCode \in {0, 1}
    /\ variant = "run_tests" =>
        (stopReply # None \/ (KEEP_RUNNING /\ DownCount = 0))

C18_Terminates == [](C18_WaitAttemptsBounded) /\ <>(C18_RunEnded)

C18_Witness ==
    /\ pc = "wait_ret" /\ ~ready /\ attempts = MaxProbeAttempts
====
